---- MODULE Spec2Model ----
(***************************************************************************)
(* A model of the weighted graph of weightedGraph.py (class Graph: an      *)
(* adjacency matrix, a node list and an edge-record list) and of the       *)
(* shortest-path routine of dijkstras-algorithm.py.                        *)
(*                                                                         *)
(* Python lists are sequences; a Python index i is the TLA+ index i + 1.   *)
(* An optional value (a matrix cell, a predecessor, a distance) is a       *)
(* sequence of length at most one: << >> is None (or float("inf")),        *)
(* << v >> is the value v.                                                 *)
(***************************************************************************)
EXTENDS Integers, Sequences, FiniteSets, TLC

\* ------------------------------------------------------------- bounds
\* The driver of Spec adds at most MaxNodes nodes and MaxEdges edge records,
\* with costs 0..MaxCost.
MaxNodes == 3
MaxEdges == 3
MaxCost == 1

NodeIds == 0 .. (MaxNodes - 1)
Costs == 0 .. MaxCost

VARIABLES
    directed,   \* Graph._directed
    matrix,     \* Graph._matrix
    nodes,      \* Graph._nodes
    edges,      \* Graph._edges
    ret,        \* the last call of the public interface and what it returned or raised
    pc,         \* where dijkstra is: "idle" (not running) or "loop" (at the while test)
    source,     \* dijkstra's argument source
    destination,\* dijkstra's argument destination
    unvisited,  \* dijkstra's local unvisited
    distance,   \* dijkstra's local distance
    previous,   \* dijkstra's local previous
    main        \* where main() of dijkstras-algorithm.py is; at = "lib" when the
                \* caller is not main but any user of the two modules

graph == <<directed, matrix, nodes, edges>>
locals == <<pc, source, destination, unvisited, distance, previous>>
vars == <<directed, matrix, nodes, edges, ret, pc, source, destination,
          unvisited, distance, previous, main>>

\* ------------------------------------------------------ optional values
None == << >>
Some(v) == << v >>
Val(o) == o[1]

\* ------------------------------------------------------------ class Graph
\* Graph.__init__: one unset cell, no node, no edge.
InitMatrix == << << None >> >>

y == Len(matrix)
x == IF y < 1 THEN 0 ELSE Len(matrix[1])
ncount == Len(nodes)
ecount == Len(edges)

\* The width of the first row of a matrix value (Graph.x on that value).
Width(m) == IF Len(m) < 1 THEN 0 ELSE Len(m[1])

\* A faulty _extendMatrix that appends the new row and leaves the old rows
\* as they are.
ExtendRowOnly(m) == Append(m, [j \in 1 .. Width(m) |-> None])

\* A faulty _extendMatrix that builds the larger matrix anew, all cells unset.
ExtendFresh(m) ==
    [i \in 1 .. (Len(m) + 1) |-> [j \in 1 .. (Len(m) + 1) |-> None]]

\* Graph._extendMatrix: every row gets one more unset cell, then a row of
\* x unset cells is appended, x read after the rows have grown.
_extendMatrix(m) ==
    LET grown == [i \in 1 .. Len(m) |-> Append(m[i], None)]
    IN  Append(grown, [j \in 1 .. Width(grown) |-> None])

\* list.index(v): the Python index of the first occurrence of v, -1 standing
\* for the ValueError list.index raises when v is absent.
IndexOf(s, v) ==
    IF \E i \in 1 .. Len(s) : s[i] = v
    THEN (CHOOSE i \in 1 .. Len(s) : s[i] = v /\ \A j \in 1 .. (i - 1) : s[j] # v) - 1
    ELSE -1

\* The outcome of a call that raises: the graph is handed back as it is at
\* the raise.
Raise(kind, m, es) == [kind |-> kind, val |-> << >>, matrix |-> m, edges |-> es]

\* A faulty _addEdge that returns len(self._edges), not len(self._edges) - 1.
InsertIdOffByOne(m, es, src, dst, cost) ==
    IF src = dst
    THEN Raise("IllegalArgumentError", m, es)
    ELSE IF IndexOf(nodes, dst) = -1 \/ IndexOf(nodes, src) = -1
         THEN Raise("ValueError", m, es)
         ELSE IF m[IndexOf(nodes, src) + 1][IndexOf(nodes, dst) + 1] # None
         THEN Raise("AlreadyPopulatedError", m, es)
         ELSE [kind |-> "ok",
               val |-> << Len(es) + 1 >>,
               matrix |-> [m EXCEPT ![IndexOf(nodes, src) + 1][IndexOf(nodes, dst) + 1]
                                        = Some(cost)],
               edges |-> Append(es, << src, dst, cost >>)]

\* Graph._addEdge on the matrix m and the edge list es.
_addEdge(m, es, src, dst, cost) ==
    IF src = dst
    THEN Raise("IllegalArgumentError", m, es)
    ELSE LET x_index == IndexOf(nodes, dst)
             y_index == IndexOf(nodes, src)
         IN  IF x_index = -1 \/ y_index = -1
             THEN Raise("ValueError", m, es)
             ELSE IF m[y_index + 1][x_index + 1] # None
             THEN Raise("AlreadyPopulatedError", m, es)
             ELSE [kind |-> "ok",
                   val |-> << Len(es) >>,
                   matrix |-> [m EXCEPT ![y_index + 1][x_index + 1] = Some(cost)],
                   edges |-> Append(es, << src, dst, cost >>)]

Min(a, b) == IF a <= b THEN a ELSE b
Max(a, b) == IF a >= b THEN a ELSE b

\* A faulty directed branch that inserts destination->source first.
AddBothReversed(src, dst, cost) ==
    LET r0 == _addEdge(matrix, edges, dst, src, cost)
    IN  IF r0.kind # "ok"
        THEN r0
        ELSE LET r1 == _addEdge(r0.matrix, r0.edges, src, dst, cost)
             IN  IF r1.kind # "ok"
                 THEN r1
                 ELSE [r1 EXCEPT !.val = r0.val \o r1.val]

\* The non-directional branch of Graph.addEdge on a directed graph: two
\* calls of _addEdge in sequence, the second on what the first left.
AddBoth(src, dst, cost) ==
    LET r0 == _addEdge(matrix, edges, src, dst, cost)
    IN  IF r0.kind # "ok"
        THEN r0
        ELSE LET r1 == _addEdge(r0.matrix, r0.edges, dst, src, cost)
             IN  IF r1.kind # "ok"
                 THEN r1
                 ELSE [r1 EXCEPT !.val = r0.val \o r1.val]

\* A faulty undirected branch that stores the pair in the order given.
AddAsGiven(src, dst, cost) == _addEdge(matrix, edges, src, dst, cost)

\* The non-directional branch of Graph.addEdge on an undirected graph.
AddCanonical(src, dst, cost) ==
    _addEdge(matrix, edges, Min(src, dst), Max(src, dst), cost)

\* A faulty addEdge without the test of lines 330-333.
AddEdgeNoSelfCheck(src, dst, cost, directional) ==
    IF directional
    THEN IF ~directed
         THEN Raise("NonDirectedError", matrix, edges)
         ELSE _addEdge(matrix, edges, src, dst, cost)
    ELSE IF directed
         THEN AddBoth(src, dst, cost)
         ELSE AddCanonical(src, dst, cost)

\* A faulty addEdge without the test of lines 336-337: a directional edge
\* is stored whatever the graph is.
AddEdgeNoDirectedCheck(src, dst, cost, directional) ==
    IF src = dst
    THEN Raise("IllegalArgumentError", matrix, edges)
    ELSE IF directional
         THEN _addEdge(matrix, edges, src, dst, cost)
         ELSE IF directed
              THEN AddBoth(src, dst, cost)
              ELSE AddCanonical(src, dst, cost)

\* Graph.addEdge: the outcome (kind, returned ids) and the matrix and edge
\* list the call leaves.
addEdge(src, dst, cost, directional) ==
    IF src = dst
    THEN Raise("IllegalArgumentError", matrix, edges)
    ELSE IF directional
         THEN IF ~directed
              THEN Raise("NonDirectedError", matrix, edges)
              ELSE _addEdge(matrix, edges, src, dst, cost)
         ELSE IF directed
              THEN AddBoth(src, dst, cost)
              ELSE AddCanonical(src, dst, cost)

\* Graph.addNode: the matrix and the node list the call leaves.
addNodeMatrix == IF ncount = 0 THEN matrix ELSE _extendMatrix(matrix)
addNodeNodes ==
    LET last == IF ncount = 0 THEN -1 ELSE nodes[Len(nodes)]
    IN  Append(nodes, last + 1)

\* The record of a call: its arguments (0 and FALSE where it has none), the
\* kind of its outcome and the value returned.
Call(op, src, dst, cost, directional, kind, val) ==
    [op |-> op, source |-> src, destination |-> dst, cost |-> cost,
     directional |-> directional, kind |-> kind, val |-> val]

NoCall == Call("none", 0, 0, 0, FALSE, "ok", << >>)

\* A faulty neighbours that scans the node's row only.
NeighboursRowOnly(node) ==
    LET row == matrix[node + 1]
        across == SelectSeq([i \in 1 .. Len(row) |-> i - 1], LAMBDA i : row[i + 1] # None)
    IN  [k \in 1 .. Len(across) |-> nodes[across[k] + 1]]

\* Graph.neighbours: the populated columns of the node's row in increasing
\* index order, then, for an undirected graph, the rows above the node whose
\* cell in the node's column is populated.
Indices(n) == [i \in 1 .. n |-> i - 1]
NodesAt(sel) == [k \in 1 .. Len(sel) |-> nodes[sel[k] + 1]]
neighbours(node) ==
    LET row == matrix[node + 1]
        across == SelectSeq(Indices(Len(row)), LAMBDA i : row[i + 1] # None)
        above == SelectSeq(Indices(node), LAMBDA i : matrix[i + 1][node + 1] # None)
    IN  IF ~directed
        THEN NodesAt(across) \o NodesAt(above)
        ELSE NodesAt(across)

\* A faulty edge that reads the cell (source, destination) whatever the
\* graph is.
EdgeAsGiven(src, dst) == matrix[src + 1][dst + 1]

\* Graph.edge: the cost of the edge as an optional value.
edge(src, dst) ==
    LET node_1 == IF directed = FALSE THEN Min(src, dst) ELSE src
        node_2 == IF directed = FALSE THEN Max(src, dst) ELSE dst
    IN  IF matrix[node_1 + 1][node_2 + 1] # None
        THEN matrix[node_1 + 1][node_2 + 1]
        ELSE IF directed = FALSE /\ matrix[node_2 + 1][node_1 + 1] # None
             THEN matrix[node_2 + 1][node_1 + 1]
             ELSE None

\* --------------------------------------------------------------- dijkstra
\* A distance is an optional number, << >> being float("inf").
Inf == << >>

\* a < b on distances: nothing is below itself, every number is below inf.
DistLess(a, b) == a # Inf /\ (b = Inf \/ Val(a) < Val(b))

\* a + cost on distances: inf + cost is inf.
DistPlus(a, cost) == IF a = Inf THEN Inf ELSE Some(Val(a) + cost)

\* Python's order on the tuples (distance[node], node).
OptionLess(d1, n1, d2, n2) == DistLess(d1, d2) \/ (d1 = d2 /\ n1 < n2)

Range(s) == {s[i] : i \in 1 .. Len(s)}

\* A faulty selection that orders the options by node alone.
MinOptionByNode(unv, dist) ==
    CHOOSE n \in Range(unv) : \A m \in Range(unv) : n <= m

\* min(options)[1]: the unvisited node with the least (distance, node).
MinOption(unv, dist) ==
    CHOOSE n \in Range(unv) :
        \A m \in Range(unv) : ~OptionLess(dist[m + 1], m, dist[n + 1], n)

\* A faulty remove that leaves the list as it is.
RemoveNothing(s, v) == s

\* list.remove(v): the list without its first v.
Remove(s, v) ==
    LET i == IndexOf(s, v) + 1
    IN  SubSeq(s, 1, i - 1) \o SubSeq(s, i + 1, Len(s))

\* A faulty test of line 46, `temp_dist <= distance[neighbor]`.
ImprovesOrTies(temp_dist, old) == DistLess(temp_dist, old) \/ temp_dist = old

\* One pass of the body of `for neighbor in graph.neighbours(current_node)`:
\* the test of line 46 on one neighbour and what it assigns. A cost of
\* None makes the sum of lines 44-45 a TypeError.
Improves(temp_dist, old) == DistLess(temp_dist, old)

RelaxOne(st, unv, current_node, neighbor) ==
    IF st.error \/ neighbor \notin Range(unv)
    THEN st
    ELSE IF edge(current_node, neighbor) = None
         THEN [st EXCEPT !.error = TRUE]
         ELSE LET temp_dist == DistPlus(st.distance[current_node + 1],
                                        Val(edge(current_node, neighbor)))
              IN  IF Improves(temp_dist, st.distance[neighbor + 1])
                  THEN [st EXCEPT !.distance[neighbor + 1] = temp_dist,
                                  !.previous[neighbor + 1] = Some(current_node)]
                  ELSE st

\* The whole for loop of lines 42-48 over the neighbour list, in order.
RECURSIVE Relax(_, _, _, _, _)
Relax(st, unv, current_node, nbrs, k) ==
    IF k > Len(nbrs)
    THEN st
    ELSE Relax(RelaxOne(st, unv, current_node, nbrs[k]), unv, current_node, nbrs, k + 1)

\* A faulty walk, `while prev:`, which node 0 ends as None does.
RECURSIVE WalkTruthy(_, _)
WalkTruthy(prev, prevs) ==
    IF prev = None \/ Val(prev) = 0
    THEN << >>
    ELSE << Val(prev) >> \o WalkTruthy(prevs[Val(prev) + 1], prevs)

\* The loop of lines 36-39: the nodes from prev back along previous.
RECURSIVE Walk(_, _)
Walk(prev, prevs) ==
    IF prev = None
    THEN << >>
    ELSE << Val(prev) >> \o Walk(prevs[Val(prev) + 1], prevs)

\* path[::-1]
Reverse(s) == [i \in 1 .. Len(s) |-> s[Len(s) + 1 - i]]

\* ------------------------------------------------------------- actions
Init ==
    /\ directed \in BOOLEAN
    /\ matrix = InitMatrix
    /\ nodes = << >>
    /\ edges = << >>
    /\ ret = NoCall
    /\ pc = "idle"
    /\ source = 0
    /\ destination = 0
    /\ unvisited = << >>
    /\ distance = << >>
    /\ previous = << >>
    /\ main = [at |-> "lib", i |-> 0, fail |-> FALSE]

AddNode ==
    /\ main.at = "lib"
    /\ pc = "idle"
    /\ ncount < MaxNodes
    /\ matrix' = addNodeMatrix
    /\ nodes' = addNodeNodes
    /\ ret' = Call("addNode", 0, 0, 0, FALSE, "ok", << nodes'[Len(nodes')] >>)
    /\ UNCHANGED <<directed, edges, locals, main>>

AddEdge ==
    /\ main.at = "lib"
    /\ pc = "idle"
    /\ \E src \in NodeIds, dst \in NodeIds, cost \in Costs, directional \in BOOLEAN :
          LET r == addEdge(src, dst, cost, directional)
          IN  /\ Len(r.edges) <= MaxEdges
              /\ matrix' = r.matrix
              /\ edges' = r.edges
              /\ ret' = Call("addEdge", src, dst, cost, directional, r.kind, r.val)
    /\ UNCHANGED <<directed, nodes, locals, main>>

\* A faulty line 21, `unvisited = graph.nodes`: the working set is the
\* graph's own list.
SharedWithGraph == TRUE

\* Line 21, `unvisited = graph.nodes.copy()`: whether the working set is the
\* very list graph.nodes returns (Graph._nodes), so that removing from the
\* one removes from the other. copy() makes it a list of its own.
WorkingSetShared == FALSE

\* dijkstra returns or raises: its locals are gone.
Return(s, d, kind, val) ==
    /\ ret' = Call("dijkstra", s, d, 0, FALSE, kind, val)
    /\ pc' = "idle"
    /\ source' = 0
    /\ destination' = 0
    /\ unvisited' = << >>
    /\ distance' = << >>
    /\ previous' = << >>

\* Lines 21-24 of dijkstra: the locals are set up; distance[source] = 0 is
\* an IndexError when source is not an index of the list.
Enter(s, d) ==
    /\ pc = "idle"
    /\ IF s >= ncount
       THEN Return(s, d, "IndexError", << >>)
       ELSE /\ pc' = "loop"
            /\ source' = s
            /\ destination' = d
            /\ unvisited' = nodes
            /\ distance' = [[i \in 1 .. ncount |-> Inf] EXCEPT ![s + 1] = Some(0)]
            /\ previous' = [i \in 1 .. ncount |-> None]
            /\ ret' = Call("dijkstra", s, d, 0, FALSE, "running", << >>)
    /\ UNCHANGED graph

DijkstraCall ==
    /\ main.at = "lib"
    /\ \E s \in NodeIds, d \in NodeIds : Enter(s, d)
    /\ UNCHANGED main

\* One iteration of the while loop of lines 26-50.
DijkstraStep ==
    /\ pc = "loop"
    /\ Len(unvisited) # 0
    /\ LET current_node == MinOption(unvisited, distance)
       IN  IF current_node = destination
           THEN Return(source, destination, "ok",
                       Reverse(Walk(Some(destination), previous)))
           ELSE LET st == Relax([distance |-> distance, previous |-> previous,
                                 error |-> FALSE],
                                unvisited, current_node, neighbours(current_node), 1)
                IN  IF st.error
                    THEN Return(source, destination, "TypeError", << >>)
                    ELSE /\ distance' = st.distance
                         /\ previous' = st.previous
                         /\ unvisited' = Remove(unvisited, current_node)
                         /\ UNCHANGED <<pc, source, destination, ret>>
    /\ nodes' = IF WorkingSetShared THEN unvisited' ELSE nodes
    /\ UNCHANGED <<directed, matrix, edges, main>>

\* The while test of line 26 fails: the function ends without a return
\* statement, and the call yields None.
DijkstraFallOff ==
    /\ pc = "loop"
    /\ Len(unvisited) = 0
    /\ Return(source, destination, "None", << >>)
    /\ UNCHANGED <<graph, main>>

Next == AddNode \/ AddEdge \/ DijkstraCall \/ DijkstraStep \/ DijkstraFallOff

Spec == Init /\ [][Next]_vars

\* ------------------------------------------------- what the claims speak of
ValidNodes == 0 .. (ncount - 1)

\* There is an edge from u to v: graph.edge(u, v) is not None.
Adjacent(u, v) == edge(u, v) # None

\* The nodes reachable from the nodes of S along edges.
RECURSIVE ReachFrom(_)
ReachFrom(S) ==
    LET T == S \cup {v \in ValidNodes : \E u \in S : Adjacent(u, v)}
    IN  IF T = S THEN S ELSE ReachFrom(T)

Reachable(s, d) == d \in ReachFrom({s})

\* A node sequence from s to d with an edge between every consecutive pair.
IsPath(p, s, d) ==
    /\ Len(p) >= 1
    /\ p[1] = s
    /\ p[Len(p)] = d
    /\ \A i \in 1 .. (Len(p) - 1) : Adjacent(p[i], p[i + 1])

RECURSIVE PathCost(_)
PathCost(p) ==
    IF Len(p) <= 1
    THEN 0
    ELSE Val(edge(p[1], p[2])) + PathCost(Tail(p))

\* Every node sequence of 1 to ncount nodes.
Walks == UNION {[1 .. k -> ValidNodes] : k \in 1 .. ncount}

AddEdgeDone == ret.op = "addEdge"
DijkstraDone ==
    /\ ret.op = "dijkstra"
    /\ ret.kind # "running"
    /\ ret.source \in ValidNodes
    /\ ret.destination \in ValidNodes

Populated(r, c) == matrix[r + 1][c + 1] # None

\* C1: every addEdge call that fails leaves the adjacency matrix, the node
\* sequence and the edge-record list exactly as they were before the call.
C1_FailedAddEdgeChangesNothing ==
    [][(ret'.op = "addEdge" /\ ret'.kind # "ok")
          => (matrix' = matrix /\ nodes' = nodes /\ edges' = edges)]_vars

\* C2: for valid source # destination with destination not reachable from
\* source, dijkstra returns the empty sequence.
C2_UnreachableGivesEmpty ==
    (DijkstraDone /\ ret.source # ret.destination
        /\ ~Reachable(ret.source, ret.destination))
    => (ret.kind = "ok" /\ ret.val = << >>)

\* C3: for valid source and destination with destination reachable from
\* source, dijkstra returns a sequence that starts with source, ends with
\* destination, has an edge between every consecutive pair, and costs no
\* more than any path from source to destination.
C3_ReachableGivesShortestPath ==
    (DijkstraDone /\ Reachable(ret.source, ret.destination))
    => /\ ret.kind = "ok"
       /\ IsPath(ret.val, ret.source, ret.destination)
       /\ \A w \in Walks :
             IsPath(w, ret.source, ret.destination)
                => PathCost(ret.val) <= PathCost(w)

\* C3 witness: dijkstra returned a path of three nodes that is strictly
\* cheaper than the direct edge from source to destination.
C3_Witness ==
    /\ DijkstraDone
    /\ ret.kind = "ok"
    /\ Len(ret.val) = 3
    /\ Adjacent(ret.source, ret.destination)
    /\ PathCost(ret.val) < Val(edge(ret.source, ret.destination))

\* C4 as claimed: on an undirected graph every addEdge call with
\* directional = true fails with NonDirectedError, whatever the arguments.
C4_DirectionalAlwaysNonDirected ==
    (AddEdgeDone /\ ~directed /\ ret.directional)
    => ret.kind = "NonDirectedError"

\* C4 as amended: on an undirected graph an addEdge call with
\* directional = true and source # destination fails with NonDirectedError,
\* and one with source = destination fails with IllegalArgumentError.
C4_DirectionalOnUndirectedFails ==
    (AddEdgeDone /\ ~directed /\ ret.directional)
    => ret.kind = (IF ret.source = ret.destination
                   THEN "IllegalArgumentError"
                   ELSE "NonDirectedError")

\* C4 witness: a directional addEdge between two distinct nodes of an
\* undirected graph was refused.
C4_Witness ==
    /\ AddEdgeDone
    /\ ~directed
    /\ ret.directional
    /\ ret.source # ret.destination
    /\ ret.source \in ValidNodes
    /\ ret.destination \in ValidNodes
    /\ ret.kind = "NonDirectedError"

\* C5: addEdge with source = destination always fails with
\* IllegalArgumentError; no diagonal cell is ever populated and no edge
\* record has source = destination.
C5_NoSelfLoop ==
    /\ (AddEdgeDone /\ ret.source = ret.destination)
          => ret.kind = "IllegalArgumentError"
    /\ \A n \in ValidNodes : ~Populated(n, n)
    /\ \A i \in 1 .. Len(edges) : edges[i][1] # edges[i][2]

\* C5 witness: a directional self-loop was refused on an undirected graph
\* that already holds an edge.
C5_Witness ==
    /\ AddEdgeDone
    /\ ret.source = ret.destination
    /\ ret.source \in ValidNodes
    /\ ret.directional
    /\ ~directed
    /\ ecount > 0
    /\ ret.kind = "IllegalArgumentError"

\* C6 as claimed: the matrix is square and its size is the node count.
C6_SquareOfNodeCount ==
    /\ \A r \in 1 .. y : Len(matrix[r]) = y
    /\ y = ncount

\* C6 as amended: the matrix is square; its size is the node count once a
\* node exists, and 1 while the graph has no node.
C6_SquareOfNodeCountOrOne ==
    /\ \A r \in 1 .. y : Len(matrix[r]) = y
    /\ x = y
    /\ y = (IF ncount = 0 THEN 1 ELSE ncount)

\* C6 witness: a graph of three nodes with an edge, after addNode.
C6_Witness ==
    /\ ret.op = "addNode"
    /\ ncount = 3
    /\ y = 3
    /\ ecount > 0

\* C7: in an undirected graph a cell (row, column) is populated only if
\* row < column, and an edge added as (source, destination) is stored in
\* the cell (min, max), whatever the argument order.
C7_UndirectedUpperTriangle ==
    ~directed =>
       /\ \A r \in 0 .. (y - 1), c \in 0 .. (y - 1) : Populated(r, c) => r < c
       /\ (AddEdgeDone /\ ret.kind = "ok")
             => /\ matrix[Min(ret.source, ret.destination) + 1]
                         [Max(ret.source, ret.destination) + 1] = Some(ret.cost)
                /\ ~Populated(Max(ret.source, ret.destination),
                              Min(ret.source, ret.destination))

\* C7 witness: an undirected edge was added with source > destination.
C7_Witness ==
    /\ ~directed
    /\ AddEdgeDone
    /\ ret.kind = "ok"
    /\ ret.source > ret.destination

\* C8: an addEdge call that fails with AlreadyPopulatedError leaves
\* neighbours(n) unchanged for every node n (and every populated cell keeps
\* its cost).
C8_DuplicateLeavesNeighbours ==
    [][(ret'.op = "addEdge" /\ ret'.kind = "AlreadyPopulatedError")
          => /\ \A n \in ValidNodes : neighbours(n)' = neighbours(n)
             /\ \A r \in ValidNodes, c \in ValidNodes :
                   Populated(r, c) => matrix'[r + 1][c + 1] = matrix[r + 1][c + 1]]_vars

\* C9: dijkstra(graph, n, n) returns exactly [n].
C9_SourceIsDestination ==
    (DijkstraDone /\ ret.source = ret.destination)
    => (ret.kind = "ok" /\ ret.val = << ret.source >>)

\* C9 witness: dijkstra(graph, n, n) returned [n] for a node n that has a
\* neighbour.
C9_Witness ==
    /\ DijkstraDone
    /\ ret.source = ret.destination
    /\ neighbours(ret.source) # << >>
    /\ ret.val = << ret.source >>

\* ------------------------------------------- main of dijkstras-algorithm.py
\* The table test_data: (source, dest, correct).
test_data == <<
    <<0, 1, <<0, 4, 1>>>>,
    <<0, 2, <<0, 4, 3, 2>>>>,
    <<0, 3, <<0, 4, 3>>>>,
    <<0, 4, <<0, 4>>>>,
    <<0, 5, <<0, 4, 1, 6, 5>>>>,
    <<0, 6, <<0, 4, 1, 6>>>>,
    <<0, 7, <<0, 4, 1, 6, 7>>>>,
    <<0, 8, <<0, 4, 3, 2, 8>>>>,
    <<0, 9, <<0, 4, 1, 6, 7, 9>>>>,
    <<1, 0, <<1, 4, 0>>>>,
    <<1, 2, <<1, 4, 3, 2>>>>,
    <<1, 3, <<1, 4, 3>>>>,
    <<1, 4, <<1, 4>>>>,
    <<1, 5, <<1, 6, 5>>>>,
    <<1, 6, <<1, 6>>>>,
    <<1, 7, <<1, 6, 7>>>>,
    <<1, 8, <<1, 6, 5, 8>>>>,
    <<1, 9, <<1, 6, 7, 9>>>>,
    <<2, 0, <<2, 3, 4, 0>>>>,
    <<2, 1, <<2, 3, 4, 1>>>>,
    <<2, 3, <<2, 3>>>>,
    <<2, 4, <<2, 3, 4>>>>,
    <<2, 5, <<2, 8, 5>>>>,
    <<2, 6, <<2, 3, 4, 1, 6>>>>,
    <<2, 7, <<2, 3, 4, 1, 6, 7>>>>,
    <<2, 8, <<2, 8>>>>,
    <<2, 9, <<2, 3, 4, 1, 6, 7, 9>>>>,
    <<3, 0, <<3, 4, 0>>>>,
    <<3, 1, <<3, 4, 1>>>>,
    <<3, 2, <<3, 2>>>>,
    <<3, 4, <<3, 4>>>>,
    <<3, 5, <<3, 4, 1, 6, 5>>>>,
    <<3, 6, <<3, 4, 1, 6>>>>,
    <<3, 7, <<3, 4, 1, 6, 7>>>>,
    <<3, 8, <<3, 2, 8>>>>,
    <<3, 9, <<3, 4, 1, 6, 7, 9>>>>,
    <<4, 0, <<4, 0>>>>,
    <<4, 1, <<4, 1>>>>,
    <<4, 2, <<4, 3, 2>>>>,
    <<4, 3, <<4, 3>>>>,
    <<4, 5, <<4, 1, 6, 5>>>>,
    <<4, 6, <<4, 1, 6>>>>,
    <<4, 7, <<4, 1, 6, 7>>>>,
    <<4, 8, <<4, 3, 2, 8>>>>,
    <<4, 9, <<4, 1, 6, 7, 9>>>>,
    <<5, 0, <<5, 6, 1, 4, 0>>>>,
    <<5, 1, <<5, 6, 1>>>>,
    <<5, 2, <<5, 8, 2>>>>,
    <<5, 3, <<5, 6, 1, 4, 3>>>>,
    <<5, 4, <<5, 6, 1, 4>>>>,
    <<5, 6, <<5, 6>>>>,
    <<5, 7, <<5, 9, 7>>>>,
    <<5, 8, <<5, 8>>>>,
    <<5, 9, <<5, 9>>>>,
    <<6, 0, <<6, 1, 4, 0>>>>,
    <<6, 1, <<6, 1>>>>,
    <<6, 2, <<6, 1, 4, 3, 2>>>>,
    <<6, 3, <<6, 1, 4, 3>>>>,
    <<6, 4, <<6, 1, 4>>>>,
    <<6, 5, <<6, 5>>>>,
    <<6, 7, <<6, 7>>>>,
    <<6, 8, <<6, 5, 8>>>>,
    <<6, 9, <<6, 7, 9>>>>,
    <<7, 0, <<7, 6, 1, 4, 0>>>>,
    <<7, 1, <<7, 6, 1>>>>,
    <<7, 2, <<7, 6, 1, 4, 3, 2>>>>,
    <<7, 3, <<7, 6, 1, 4, 3>>>>,
    <<7, 4, <<7, 6, 1, 4>>>>,
    <<7, 5, <<7, 9, 5>>>>,
    <<7, 6, <<7, 6>>>>,
    <<7, 8, <<7, 9, 5, 8>>>>,
    <<7, 9, <<7, 9>>>>,
    <<8, 0, <<8, 2, 3, 4, 0>>>>,
    <<8, 1, <<8, 5, 6, 1>>>>,
    <<8, 2, <<8, 2>>>>,
    <<8, 3, <<8, 2, 3>>>>,
    <<8, 4, <<8, 2, 3, 4>>>>,
    <<8, 5, <<8, 5>>>>,
    <<8, 6, <<8, 5, 6>>>>,
    <<8, 7, <<8, 5, 9, 7>>>>,
    <<8, 9, <<8, 5, 9>>>>,
    <<9, 0, <<9, 7, 6, 1, 4, 0>>>>,
    <<9, 1, <<9, 7, 6, 1>>>>,
    <<9, 2, <<9, 7, 6, 1, 4, 3, 2>>>>,
    <<9, 3, <<9, 7, 6, 1, 4, 3>>>>,
    <<9, 4, <<9, 7, 6, 1, 4>>>>,
    <<9, 5, <<9, 5>>>>,
    <<9, 6, <<9, 7, 6>>>>,
    <<9, 7, <<9, 7>>>>,
    <<9, 8, <<9, 5, 8>>>> >>

\* range(10): the number of nodes main adds.
FixtureNodes == 10

\* The list edges of main: (source, destination, cost).
fixture_edges == <<
    <<0, 1, 6>>,
    <<0, 3, 4>>,
    <<0, 4, 2>>,
    <<1, 4, 3>>,
    <<1, 6, 5>>,
    <<2, 3, 3>>,
    <<2, 8, 10>>,
    <<3, 4, 1>>,
    <<5, 8, 5>>,
    <<5, 9, 3>>,
    <<5, 6, 6>>,
    <<6, 7, 2>>,
    <<7, 9, 2>>,
    <<8, 9, 9>> >>

\* main is a record while the program of dijkstras-algorithm.py runs: at is
\* the loop it is in, i the number of passes made, fail its variable fail.
InitMain ==
    /\ directed = FALSE
    /\ matrix = InitMatrix
    /\ nodes = << >>
    /\ edges = << >>
    /\ ret = NoCall
    /\ pc = "idle"
    /\ source = 0
    /\ destination = 0
    /\ unvisited = << >>
    /\ distance = << >>
    /\ previous = << >>
    /\ main = [at |-> "nodes", i |-> 0, fail |-> FALSE]

InMain == main.at # "lib"

\* One pass of `for i in range(10)`: graph.addNode().
MainAddNode ==
    /\ InMain
    /\ main.at = "nodes"
    /\ matrix' = addNodeMatrix
    /\ nodes' = addNodeNodes
    /\ ret' = Call("addNode", 0, 0, 0, FALSE, "ok", << nodes'[Len(nodes')] >>)
    /\ main' = IF main.i + 1 = FixtureNodes
               THEN [main EXCEPT !.at = "edges", !.i = 0]
               ELSE [main EXCEPT !.i = main.i + 1]
    /\ UNCHANGED <<directed, edges, locals>>

\* One pass of `for edge in edges`: graph.addEdge(edge[0], edge[1], edge[2]).
\* An exception ends the program.
MainAddEdge ==
    /\ InMain
    /\ main.at = "edges"
    /\ LET e == fixture_edges[main.i + 1]
           r == addEdge(e[1], e[2], e[3], FALSE)
       IN  /\ matrix' = r.matrix
           /\ edges' = r.edges
           /\ ret' = Call("addEdge", e[1], e[2], e[3], FALSE, r.kind, r.val)
           /\ main' = IF r.kind # "ok"
                      THEN [main EXCEPT !.at = "raised"]
                      ELSE IF main.i + 1 = Len(fixture_edges)
                      THEN [main EXCEPT !.at = "tests", !.i = 0]
                      ELSE [main EXCEPT !.i = main.i + 1]
    /\ UNCHANGED <<directed, nodes, locals>>

\* `for test in test_data`: the call dijkstra(graph, test[0], test[1]).
MainTest ==
    /\ InMain
    /\ main.at = "tests"
    /\ Enter(test_data[main.i + 1][1], test_data[main.i + 1][2])
    /\ main' = [main EXCEPT !.at = "called"]

\* The comparison of line 181 on what the call gave, and the end of the
\* pass; an exception out of dijkstra ends the program.
MainCompare ==
    /\ InMain
    /\ main.at = "called"
    /\ pc = "idle"
    /\ main' = IF ret.kind \in {"IndexError", "TypeError"}
               THEN [main EXCEPT !.at = "raised"]
               ELSE [at |-> IF main.i + 1 = Len(test_data) THEN "done" ELSE "tests",
                     i |-> main.i + 1,
                     fail |-> main.fail
                                \/ ret.kind # "ok"
                                \/ ret.val # test_data[main.i + 1][3]]
    /\ UNCHANGED <<graph, ret, locals>>

NextMain == MainAddNode \/ MainAddEdge \/ MainTest \/ DijkstraStep \/ MainCompare

SpecMain == InitMain /\ [][NextMain]_vars

\* C10: on the fixture of main, dijkstra returns exactly the expected node
\* sequence for every pair of the test table, among them 0->9, 0->8 and
\* 2->5; main ends with fail = False.
C10_FixturePaths ==
    /\ (InMain /\ main.at = "called" /\ pc = "idle")
          => /\ ret.kind = "ok"
             /\ ret.source = test_data[main.i + 1][1]
             /\ ret.destination = test_data[main.i + 1][2]
             /\ ret.val = test_data[main.i + 1][3]
             /\ (ret.source = 0 /\ ret.destination = 9) => ret.val = << 0, 4, 1, 6, 7, 9 >>
             /\ (ret.source = 0 /\ ret.destination = 8) => ret.val = << 0, 4, 3, 2, 8 >>
             /\ (ret.source = 2 /\ ret.destination = 5) => ret.val = << 2, 8, 5 >>
    /\ (InMain /\ main.at \in {"tests", "called", "done"})
          => (~main.fail /\ ncount = FixtureNodes /\ ecount = Len(fixture_edges))
    /\ InMain => main.at # "raised"

\* C10 witness: main ran all the tests of the table and none failed.
C10_Witness ==
    /\ InMain
    /\ main.at = "done"
    /\ main.i = Len(test_data)
    /\ ~main.fail
    /\ ret.source = 9
    /\ ret.destination = 8
    /\ ret.val = << 9, 5, 8 >>

\* C11: on a directed graph a successful non-directional
\* addEdge(source, destination, cost) stores cost in both cells, appends
\* exactly the two records source->destination and destination->source in
\* that order, and returns [k, k + 1], k the edge count before the call.
C11_BothDirectionsStored ==
    [][(ret'.op = "addEdge" /\ ret'.kind = "ok" /\ directed /\ ~ret'.directional)
          => /\ matrix'[ret'.source + 1][ret'.destination + 1] = Some(ret'.cost)
             /\ matrix'[ret'.destination + 1][ret'.source + 1] = Some(ret'.cost)
             /\ edges' = edges \o << << ret'.source, ret'.destination, ret'.cost >>,
                                     << ret'.destination, ret'.source, ret'.cost >> >>
             /\ ret'.val = << Len(edges), Len(edges) + 1 >>]_vars

\* C11 witness: a non-directional addEdge succeeded on a directed graph that
\* already held an edge, and returned [1, 2].
C11_Witness ==
    /\ directed
    /\ ret.op = "addEdge"
    /\ ret.kind = "ok"
    /\ ~ret.directional
    /\ ret.val = << 1, 2 >>
    /\ ecount = 3

\* The first of the two insertions of a non-directional addEdge on a
\* directed graph is made: the failure, if any, is the second insertion's.
FirstInsertionMade(src, dst, directional) ==
    /\ directed
    /\ ~directional
    /\ src # dst
    /\ src \in 0 .. (ncount - 1)
    /\ dst \in 0 .. (ncount - 1)
    /\ matrix[src + 1][dst + 1] = None

\* C12: edge ids are sequential and never reused: addEdge keeps the records
\* already inserted in their places and appends the new ones, the ids it
\* returns are the edge counts just before each record was inserted, an
\* insertion that fails appends no record, and addEdge leaves the node
\* sequence as it is.
C12_SequentialEdgeIds ==
    [][(ret'.op = "addEdge")
          => /\ nodes' = nodes
             /\ Len(edges') >= Len(edges)
             /\ SubSeq(edges', 1, Len(edges)) = edges
             /\ (ret'.kind = "ok")
                   => /\ Len(ret'.val) = Len(edges') - Len(edges)
                      /\ Len(ret'.val) >= 1
                      /\ \A j \in 1 .. Len(ret'.val) : ret'.val[j] = Len(edges) + j - 1
             /\ (ret'.kind # "ok")
                   => edges' = IF FirstInsertionMade(ret'.source, ret'.destination,
                                                     ret'.directional)
                               THEN Append(edges, << ret'.source, ret'.destination,
                                                     ret'.cost >>)
                               ELSE edges]_vars

\* C12 witness: a third record was inserted by a successful addEdge
\* and given the id 2.
C12_Witness ==
    /\ ret.op = "addEdge"
    /\ ret.kind = "ok"
    /\ ret.val = << 2 >>
    /\ ecount = 3

\* C13: addNode never fails; the call made on a graph of k nodes returns the
\* id k, so the node sequence is always 0, 1, ..., ncount - 1; it leaves
\* every cell of the old matrix and every edge record as it was, and every
\* cell of the new node's row and column is unset.
C13_AddNode ==
    /\ [](nodes = [i \in 1 .. ncount |-> i - 1])
    /\ []((main.at = "lib" /\ pc = "idle" /\ ncount < MaxNodes) => ENABLED AddNode)
    /\ [][(ret'.op = "addNode")
             => /\ ret'.kind = "ok"
                /\ ret'.val = << ncount >>
                /\ nodes' = Append(nodes, ncount)
                /\ edges' = edges
                /\ \A r \in 0 .. (ncount - 1), c \in 0 .. (ncount - 1) :
                      matrix'[r + 1][c + 1] = matrix[r + 1][c + 1]
                /\ \A j \in 1 .. (ncount + 1) :
                      /\ matrix'[ncount + 1][j] = None
                      /\ matrix'[j][ncount + 1] = None]_vars

\* C13 witness: a third node was added to a graph holding two edges, which
\* are still in their cells.
C13_Witness ==
    /\ ret.op = "addNode"
    /\ ret.val = << 2 >>
    /\ ncount = 3
    /\ ecount = 2
    /\ \E r \in 0 .. 1, c \in 0 .. 1 : matrix[r + 1][c + 1] # None

\* C18: neighbours and edge agree: for all nodes n and m, m is in
\* neighbours(n) if and only if edge(n, m) is not None; in an undirected
\* graph neighbours is symmetric; and dijkstra's relaxation never adds a
\* cost of None to a distance.
C18_NeighboursAgreeWithEdge ==
    /\ \A n \in ValidNodes, m \in ValidNodes :
          (m \in Range(neighbours(n))) <=> (edge(n, m) # None)
    /\ ~directed
          => \A n \in ValidNodes, m \in ValidNodes :
                (m \in Range(neighbours(n))) <=> (n \in Range(neighbours(m)))
    /\ ret.kind # "TypeError"

\* C18 witness: on an undirected graph dijkstra returned a path whose first
\* step goes from a node to a lower one, over an edge stored once, in the
\* lower node's row.
C18_Witness ==
    /\ ~directed
    /\ DijkstraDone
    /\ ret.kind = "ok"
    /\ Len(ret.val) >= 2
    /\ ret.val[1] > ret.val[2]
    /\ Populated(ret.val[2], ret.val[1])
    /\ ret.val[2] \in Range(neighbours(ret.val[1]))

\* C15: dijkstra is read-only on the graph: every step of a call leaves the
\* adjacency matrix, the node sequence and the edge-record list as they
\* were, the steps that remove a node from the working set included.
C15_DijkstraReadOnly ==
    [][(ret'.op = "dijkstra")
          => (matrix' = matrix /\ nodes' = nodes /\ edges' = edges
                /\ directed' = directed)]_vars

\* C15 witness: dijkstra returned a path of three nodes, having removed two
\* nodes from its working set, and the graph still has its three nodes.
C15_Witness ==
    /\ DijkstraDone
    /\ ret.kind = "ok"
    /\ Len(ret.val) = 3
    /\ nodes = << 0, 1, 2 >>
    /\ ecount >= 2

\* A call of dijkstra, once made, runs on: the program is single-threaded
\* and the loop has no point at which it waits.
SpecFair == Spec /\ WF_vars(DijkstraStep) /\ WF_vars(DijkstraFallOff)

\* The walk from prev back along prevs ends within fuel steps.
RECURSIVE ChainEnds(_, _, _)
ChainEnds(prev, prevs, fuel) ==
    IF prev = None
    THEN TRUE
    ELSE IF fuel = 0
         THEN FALSE
         ELSE ChainEnds(prevs[Val(prev) + 1], prevs, fuel - 1)

\* dijkstra is at its while test, called with a destination of the graph.
InLoop == pc = "loop" /\ destination \in ValidNodes

\* C16: with valid source and destination dijkstra always terminates and
\* returns a sequence: each iteration that does not return removes exactly
\* one node from the working set, which holds at most ncount nodes, none
\* twice, and still holds destination; the predecessor chain of every node
\* ends within ncount steps (it has no cycle); and a running call leads to
\* its return.
C16_Terminates ==
    /\ [](InLoop
            => /\ destination \in Range(unvisited)
               /\ Len(unvisited) <= ncount
               /\ Cardinality(Range(unvisited)) = Len(unvisited)
               /\ \A n \in ValidNodes : ChainEnds(Some(n), previous, ncount))
    /\ [][(pc = "loop" /\ pc' = "loop") => Len(unvisited') = Len(unvisited) - 1]_vars
    /\ [](DijkstraDone => ret.kind = "ok")
    /\ ((pc = "loop") ~> (pc = "idle"))

\* C16 witness: dijkstra is at its last possible iteration, one node left in
\* the working set of a graph of three nodes, and that node has a
\* predecessor chain of three nodes.
C16_Witness ==
    /\ InLoop
    /\ ncount = 3
    /\ Len(unvisited) = 1
    /\ previous[destination + 1] # None
    /\ previous[Val(previous[destination + 1]) + 1] # None

\* ------------------------------------------------ a caller asking both ways
\* A user of the two modules that builds a graph as in Spec and then calls
\* dijkstra(graph, a, b) and, once it has returned, dijkstra(graph, b, a);
\* main.first keeps what the first call gave.
PairFirst ==
    /\ main.at = "lib"
    /\ \E a \in NodeIds, b \in NodeIds : Enter(a, b)
    /\ main' = [at |-> "first", i |-> 0, fail |-> FALSE]

PairSecond ==
    /\ main.at = "first"
    /\ pc = "idle"
    /\ Enter(ret.destination, ret.source)
    /\ main' = [at |-> "second", i |-> 0, fail |-> FALSE, first |-> ret]

NextPair ==
    AddNode \/ AddEdge \/ PairFirst \/ PairSecond \/ DijkstraStep \/ DijkstraFallOff

SpecPair == Init /\ [][NextPair]_vars

\* Both calls of the pair have returned.
PairDone == main.at = "second" /\ pc = "idle"

\* C14: on an undirected graph, for connected nodes a and b, the summed edge
\* cost along dijkstra(graph, a, b) equals the summed edge cost along
\* dijkstra(graph, b, a).
C14_SymmetricCost ==
    (PairDone /\ ~directed /\ DijkstraDone
        /\ Reachable(ret.source, ret.destination))
    => /\ main.first.kind = "ok"
       /\ ret.kind = "ok"
       /\ main.first.source = ret.destination
       /\ main.first.destination = ret.source
       /\ IsPath(main.first.val, ret.destination, ret.source)
       /\ IsPath(ret.val, ret.source, ret.destination)
       /\ PathCost(main.first.val) = PathCost(ret.val)

\* C14 witness: on an undirected graph the two calls returned paths of three
\* nodes through a node below both ends, each of cost 1.
C14_Witness ==
    /\ PairDone
    /\ ~directed
    /\ DijkstraDone
    /\ ret.kind = "ok"
    /\ main.first.kind = "ok"
    /\ ret.source # ret.destination
    /\ Len(ret.val) = 3
    /\ Len(main.first.val) = 3
    /\ ret.val[2] = 0
    /\ PathCost(main.first.val) = 1
    /\ PathCost(ret.val) = 1

\* ------------------------------- the search of section 4.2, run to the end
\* The algorithm as the specification words it, over the graph's own queries
\* neighbours and edge: it never stops at destination.
Infinite == << >>

\* "candidate is strictly smaller than the neighbour's recorded distance";
\* "any finite candidate is strictly less than infinity".
StrictlySmaller(candidate, recorded) ==
    /\ candidate # Infinite
    /\ (recorded = Infinite \/ Val(candidate) < Val(recorded))

\* Steps 1 to 3: every node at distance "infinite" except source at 0, every
\* predecessor "none", the working set holding all nodes.
SearchStart(src) ==
    [dist        |-> [n \in ValidNodes |-> IF n = src THEN Some(0) ELSE Infinite],
     predecessor |-> [n \in ValidNodes |-> None],
     working     |-> ValidNodes]

\* Step 4a: the node of the working set with minimum distance, the lowest id
\* among those that tie.
SelectMinimum(st) ==
    CHOOSE n \in st.working :
        \A m \in st.working \ {n} :
            \/ StrictlySmaller(st.dist[n], st.dist[m])
            \/ (st.dist[n] = st.dist[m] /\ n < m)

\* Step 4c's candidate for a neighbour: the current node's distance plus
\* the edge cost.
Candidate(st, current, n) ==
    IF st.dist[current] = Infinite
    THEN Infinite
    ELSE Some(Val(st.dist[current]) + Val(edge(current, n)))

\* Steps 4a to 4c once: select, remove, and update every neighbour still
\* in the working set whose candidate is strictly smaller.
SearchRound(st) ==
    LET current == SelectMinimum(st)
        rest    == st.working \ {current}
        near    == {n \in rest : \E k \in 1 .. Len(neighbours(current)) :
                                     neighbours(current)[k] = n}
        better  == {n \in near : StrictlySmaller(Candidate(st, current, n), st.dist[n])}
    IN  [dist        |-> [n \in ValidNodes |->
                            IF n \in better THEN Candidate(st, current, n)
                                            ELSE st.dist[n]],
         predecessor |-> [n \in ValidNodes |->
                            IF n \in better THEN Some(current)
                                            ELSE st.predecessor[n]],
         working     |-> rest]

\* Step 4: repeat while the working set is non-empty.
RECURSIVE FullRelaxation(_)
FullRelaxation(st) ==
    IF st.working = {} THEN st ELSE FullRelaxation(SearchRound(st))

\* Step 5: the nodes collected walking predecessors backward from n until
\* a node with no predecessor, that node included.
RECURSIVE WalkBack(_, _)
WalkBack(n, predecessor) ==
    IF predecessor[n] = None
    THEN << n >>
    ELSE << n >> \o WalkBack(Val(predecessor[n]), predecessor)

\* Step 5: "then reversing the collected sequence".
Reversed(s) == [i \in 1 .. Len(s) |-> s[Len(s) + 1 - i]]

shortest_path(src, dst) ==
    Reversed(WalkBack(dst, FullRelaxation(SearchStart(src)).predecessor))

\* C17: for every graph and every valid source and destination, dijkstra,
\* which stops as soon as destination is selected from the working set,
\* returns the same node sequence as the algorithm of section 4.2 run until
\* the working set is empty (minimum distance with the lowest id on ties,
\* update only on a strictly smaller candidate, walk predecessors back from
\* destination, reverse).
C17_SameAsFullCompletion ==
    DijkstraDone
    => /\ ret.kind = "ok"
       /\ ret.val = shortest_path(ret.source, ret.destination)

\* C17 witness: dijkstra(graph, 0, 1) returned [0, 1] with node 2 still in
\* the working set at distance 1, and the run to the end goes on to lower
\* node 2's distance to 0 and to move its predecessor from 0 to 1.
C17_Witness ==
    /\ DijkstraDone
    /\ ret.kind = "ok"
    /\ ncount = 3
    /\ ret.source = 0
    /\ ret.destination = 1
    /\ ret.val = << 0, 1 >>
    /\ edge(0, 1) = Some(0)
    /\ edge(0, 2) = Some(1)
    /\ edge(1, 2) = Some(0)
    /\ FullRelaxation(SearchStart(0)).predecessor[2] = Some(1)

====
